---- MODULE Spec2Model ----
(***************************************************************************)
(* Model of jira-automation.py: the reconciliation of Snyk findings        *)
(* against the Jira issues that already carry the findings' labels.        *)
(*                                                                         *)
(* Strings are sequences of one-character strings, so that f-string        *)
(* concatenation, str.partition, str.removesuffix, str.startswith and the  *)
(* slice [:-2] are computed as Python computes them.                       *)
(***************************************************************************)
EXTENDS Integers, Sequences, FiniteSets

VARIABLES
    pc,                              \* position of the process
    runs,                            \* number of executions of main() started
    tracker,                         \* the Jira project's issues, in creation order
    dry_run,                         \* JiraClient.__dry_run of the current run
    project,                         \* the Snyk project of the current run
    skip_logged,                     \* "skipping file ..." was logged (line 457)
    vulnerabilities_to_compare_list, \* process_vulnerabilities parameter
    jira_query,                      \* process_vulnerabilities parameter
    load_more,                       \* process_vulnerabilities local
    start_at,                        \* process_vulnerabilities local
    jira_issues,                     \* last page returned by the search
    vulnerabilities_to_create_list,  \* result of compare_jira_snyk
    created_jira_issues,             \* result of JIRA.create_issues
    calls,                           \* tracker calls made by the current run
    log,                             \* what the current run logged / printed
    raised,                          \* exceptions raised by tracker calls in this run
    matching_at_search,              \* tracker issues matching the query when searched
    covered_at_start,                \* every finding of this run was labelled in the
                                     \* tracker by an earlier run when this run began
    fn,                              \* function exercised by the function-level specs
    args,                            \* its inputs
    result                           \* its output

vars == <<pc, runs, tracker, dry_run, project, skip_logged,
          vulnerabilities_to_compare_list, jira_query, load_more, start_at,
          jira_issues, vulnerabilities_to_create_list, created_jira_issues,
          calls, log, raised, matching_at_search, covered_at_start,
          fn, args, result>>

(***************************************************************************)
(* Bounds of the model.                                                    *)
(***************************************************************************)
MaxRuns == 2
MaxSmall == 2
MaxOver == 1
MaxStrLen == 2
MaxQueryFindings == 2
MaxCompare == 2
MaxLabels == 2

(***************************************************************************)
(* Program constants.                                                      *)
(***************************************************************************)
\* process_vulnerabilities: page size of the tracker search
max_results == 50

VULNERABILITY_SEVERITIES == {"critical", "high"}

\* the severities the scanner reports
Severities == <<"critical", "high", "medium", "low">>

(***************************************************************************)
(* Python string operations.                                               *)
(***************************************************************************)
Min(a, b) == IF a < b THEN a ELSE b

\* index of the first occurrence of character c in s, 0 when absent
find(s, c) ==
    IF \E i \in 1..Len(s) : s[i] = c
    THEN CHOOSE i \in 1..Len(s) : s[i] = c /\ \A j \in 1..(i - 1) : s[j] # c
    ELSE 0

\* s.partition(":")[0]
partition_before(s) ==
    IF find(s, ":") = 0 THEN s ELSE SubSeq(s, 1, find(s, ":") - 1)

\* s.partition(":")[2]
partition_after(s) ==
    IF find(s, ":") = 0 THEN <<>> ELSE SubSeq(s, find(s, ":") + 1, Len(s))

endswith(s, suffix) ==
    /\ Len(suffix) <= Len(s)
    /\ SubSeq(s, Len(s) - Len(suffix) + 1, Len(s)) = suffix

removesuffix(s, suffix) ==
    IF suffix # <<>> /\ endswith(s, suffix)
    THEN SubSeq(s, 1, Len(s) - Len(suffix))
    ELSE s

startswith(s, prefix) ==
    /\ Len(prefix) <= Len(s)
    /\ SubSeq(s, 1, Len(prefix)) = prefix

\* re.search(pattern, s) for a pattern without metacharacters: substring search
re_search(pattern, s) ==
    \E i \in 0..(Len(s) - Len(pattern)) : SubSeq(s, i + 1, i + Len(pattern)) = pattern

(***************************************************************************)
(* parse_project_name, parse_file_name, exclude_file.                      *)
(***************************************************************************)
parse_project_name(project_name, branch_name) ==
    removesuffix(partition_before(project_name), <<"(">> \o branch_name \o <<")">>)

parse_file_name(project_name) == partition_after(project_name)

exclude_file(file_name, excluded_files) ==
    \E k \in 1..Len(excluded_files) : re_search(excluded_files[k], file_name)

(***************************************************************************)
(* list_snyk_vulnerabilities: the tracking identity of every finding and   *)
(* the JQL query over the identities.                                      *)
(***************************************************************************)
\* faulty variant of jira_snyk_id: no delimiter between file path and branch
jira_snyk_id_colliding(prefix, project_name, file_name, project_branch, id) ==
    prefix \o project_name \o <<":">> \o file_name \o project_branch \o <<":">> \o id

\* f"{prefix}{project_name}:{file_name}:{project_branch}:{vulnerability.id}"
jira_snyk_id(prefix, project_name, file_name, project_branch, id) ==
    prefix \o project_name \o <<":">> \o file_name \o <<":">>
           \o project_branch \o <<":">> \o id

\* f"project={jira_client.get_project_id()} AND ("
query_head(project_id) ==
    <<"p", "r", "o", "j", "e", "c", "t", "=">> \o project_id
        \o <<" ", "A", "N", "D", " ", "(">>

\* f" labels=\"{jira_snyk_id}\" OR"
query_clause(id) ==
    <<" ", "l", "a", "b", "e", "l", "s", "=", "\"">> \o id \o <<"\"", " ", "O", "R">>

\* faulty variant of strip_last_or: the trailing OR is kept
strip_last_or_keep(q) == q \o <<")">>

\* jira_query[:-2] + ")"
strip_last_or(q) ==
    SubSeq(q, 1, IF Len(q) >= 2 THEN Len(q) - 2 ELSE 0) \o <<")">>

list_snyk_vulnerabilities(vulnerabilities, project_branch, project_name, file_name, prefix, project_id) ==
    LET ident(v) == jira_snyk_id(prefix, project_name, file_name, project_branch, v.id)
        q[i \in 0..Len(vulnerabilities)] ==
            IF i = 0 THEN query_head(project_id)
            ELSE q[i - 1] \o query_clause(ident(vulnerabilities[i]))
    IN  [patchable_vulnerabilities |->
            [i \in 1..Len(vulnerabilities) |->
                [snyk_id |-> vulnerabilities[i].id,
                 jira_snyk_id |-> ident(vulnerabilities[i]),
                 severity |-> vulnerabilities[i].severity]],
         jira_query |-> strip_last_or(q[Len(vulnerabilities)])]

(***************************************************************************)
(* compare_jira_snyk.                                                      *)
(***************************************************************************)
\* faulty variant of jira_issue_labels: only the first label of an issue is read
jira_issue_labels_first_only(issues, jira_label_prefix) ==
    {issues[k].labels[1] : k \in {j \in 1..Len(issues) :
        /\ Len(issues[j].labels) > 0
        /\ startswith(issues[j].labels[1], jira_label_prefix)}}

\* the set built by the two nested loops of lines 424-428
jira_issue_labels(issues, jira_label_prefix) ==
    LET acc[k \in 0..Len(issues)] ==
            IF k = 0 THEN {}
            ELSE acc[k - 1] \cup
                 {issues[k].labels[l] : l \in {m \in 1..Len(issues[k].labels) :
                     startswith(issues[k].labels[m], jira_label_prefix)}}
    IN  acc[Len(issues)]

compare_jira_snyk(vulnerabilities, issues, jira_label_prefix) ==
    LET labels == jira_issue_labels(issues, jira_label_prefix)
    IN  SelectSeq(vulnerabilities, LAMBDA v : v.jira_snyk_id \notin labels)

(***************************************************************************)
(* Run configuration (main, lines 521-591) and the scanner's data.         *)
(***************************************************************************)
\* JIRA_LABEL_PREFIX, JIRA_PROJECT_ID
jira_label_prefix == <<"p", ":">>
jira_project_id == <<"P", "R", "O", "J">>

\* the exclusion file: artifact "r" excludes files matching "g"
exclude_files_get(project_name) ==
    IF project_name = <<"r">> THEN << <<"g">> >> ELSE <<>>

\* (project.name, project.branch) of the scanned artifacts
Projects ==
    { [name |-> <<"r", "(", "m", ")", ":", "f">>, branch |-> <<"m">>],
      [name |-> <<"r", "(", "m", ")", ":", "g">>, branch |-> <<"m">>] }

\* sizes of project.issueset_aggregated.all().issues: around 0 and around a page
FindingCounts == (0..MaxSmall) \cup (max_results..(max_results + MaxOver))

Digits == <<"0", "1", "2", "3", "4", "5", "6", "7", "8", "9">>

\* the i-th finding of an issue set: scanner id "vNN", severities in rotation
Finding(i) ==
    [id |-> <<"v", Digits[((i \div 10) % 10) + 1], Digits[(i % 10) + 1]>>,
     severity |-> Severities[((i - 1) % Len(Severities)) + 1]]

IssueSet(n) == [i \in 1..n |-> Finding(i)]

\* key of the n-th issue of the tracker
IssueKey(n) == <<"K", Digits[((n \div 100) % 10) + 1],
                 Digits[((n \div 10) % 10) + 1], Digits[(n % 10) + 1]>>

(***************************************************************************)
(* The tracker (JIRA server) as seen through the jira library.             *)
(***************************************************************************)
\* the string literals of a JQL query
QueryLabels(q) ==
    LET quotes == {i \in 1..Len(q) : q[i] = "\""}
        opens == {i \in quotes : Cardinality({k \in quotes : k < i}) % 2 = 0}
        closed == {i \in opens : \E k \in quotes : k > i}
        close(i) == CHOOSE k \in quotes : k > i /\ \A m \in quotes : m > i => k <= m
    IN  {SubSeq(q, i + 1, close(i) - 1) : i \in closed}

\* the issues of the tracker that carry one of the query's labels
Matching(q) ==
    LET wanted == QueryLabels(q)
    IN  SelectSeq(tracker, LAMBDA issue :
            \E l \in 1..Len(issue.labels) : issue.labels[l] \in wanted)

\* JIRA.search_issues(jql_str, startAt, maxResults): one window of the matches
search_issues(q, startAt, maxResults) ==
    LET found == Matching(q)
    IN  SubSeq(found, startAt + 1, Min(startAt + maxResults, Len(found)))

\* exceptions a failing tracker call may raise
TrackerExceptions == {"JIRAError", "SystemError"}

\* keys of the dictionaries JIRA.create_issues returns, in iteration order
created_issue_fields ==
    << <<"s", "t", "a", "t", "u", "s">>, <<"e", "r", "r", "o", "r">>,
       <<"i", "s", "s", "u", "e">>,
       <<"i", "n", "p", "u", "t", "_", "f", "i", "e", "l", "d", "s">> >>

(***************************************************************************)
(* JiraClient.                                                             *)
(***************************************************************************)
\* faulty variant of is_dry_run: the flag is ignored
is_dry_run_ignored == FALSE

\* is_dry_run (truthiness of DRY_RUN)
is_dry_run == dry_run

\* the only handler of create_jira_issues: except SystemError (line 142)
except_clause_catches(e) == e = "SystemError"

\* list_existing_jira_issues: the page, and the constant False of line 164
list_existing_jira_issues(q, start, maximum) ==
    [issues |-> search_issues(q, start, maximum), load_more |-> FALSE]

\* lines 115-127: one create request per vulnerability (summary, description,
\* components and due date do not bear on any call and are left out)
jira_issues_to_create(vulnerabilities_to_create) ==
    [i \in 1..Len(vulnerabilities_to_create) |->
        [project |-> jira_project_id,
         issuetype |-> "Bug",
         labels |-> <<vulnerabilities_to_create[i].jira_snyk_id>>]]

\* lines 132-135: for issue in created_jira_issues: for key in issue: append(key)
issue_keys_of(created) ==
    LET acc[i \in 0..Len(created)] ==
            IF i = 0 THEN <<>> ELSE acc[i - 1] \o created_issue_fields
    IN  acc[Len(created)]

\* the count printed at line 145
dry_run_count(to_create) == Len(to_create)

(***************************************************************************)
(* The process: main -> process_projects -> process_vulnerabilities ->     *)
(* create_jira_issues.  pc is the position between two tracker calls.      *)
(***************************************************************************)
NoCall == <<>>

\* the process before main() has run
Idle ==
    /\ pc = "idle"
    /\ runs = 0
    /\ tracker = <<>>
    /\ dry_run = FALSE
    /\ project = [name |-> <<>>, branch |-> <<>>, issues |-> <<>>]
    /\ skip_logged = FALSE
    /\ vulnerabilities_to_compare_list = <<>>
    /\ jira_query = <<>>
    /\ load_more = FALSE
    /\ start_at = 0
    /\ jira_issues = <<>>
    /\ vulnerabilities_to_create_list = <<>>
    /\ created_jira_issues = <<>>
    /\ calls = NoCall
    /\ log = <<>>
    /\ raised = {}
    /\ matching_at_search = <<>>
    /\ covered_at_start = FALSE

Init ==
    /\ Idle
    /\ fn = "none"
    /\ args = <<>>
    /\ result = <<>>

main_vars == <<pc, runs, tracker, dry_run, project, skip_logged,
               vulnerabilities_to_compare_list, jira_query, load_more, start_at,
               jira_issues, vulnerabilities_to_create_list, created_jira_issues,
               calls, log, raised, matching_at_search, covered_at_start>>

fn_vars == <<fn, args, result>>

\* the tracker holds an issue labelled with every identity of the list
Covered(vulnerabilities) ==
    /\ Len(vulnerabilities) > 0
    /\ \A i \in 1..Len(vulnerabilities) :
         \E k \in 1..Len(tracker) : \E l \in 1..Len(tracker[k].labels) :
             tracker[k].labels[l] = vulnerabilities[i].jira_snyk_id

\* where the while loop of process_vulnerabilities goes after an iteration
loop_exit(more) == IF more THEN "search" ELSE "done"

\* faulty variant of calls_process_vulnerabilities: neither list is tested
calls_process_vulnerabilities_unguarded(issues, to_compare) == TRUE

\* the two guards before the call of process_vulnerabilities:
\* "if issue_set.issues:" (line 460) and "if vulnerabilities_to_compare_list:"
\* (line 465)
calls_process_vulnerabilities(issues, to_compare) ==
    Len(issues) > 0 /\ Len(to_compare) > 0

\* main (lines 577-591) and process_projects (lines 448-472), up to the call
\* of process_vulnerabilities
process_projects(p, n, dry) ==
    LET project_name == parse_project_name(p.name, p.branch)
        file_name == parse_file_name(p.name)
        excluded_files == exclude_files_get(project_name)
        issue_set == IssueSet(n)
        listed == list_snyk_vulnerabilities(issue_set, p.branch, project_name,
                      file_name, jira_label_prefix, jira_project_id)
        enter == calls_process_vulnerabilities(issue_set,
                                               listed.patchable_vulnerabilities)
    IN  /\ pc \in {"idle", "done", "crashed"}
        /\ runs < MaxRuns
        /\ runs' = runs + 1
        /\ dry_run' = dry
        /\ project' = [name |-> p.name, branch |-> p.branch, issues |-> issue_set]
        /\ skip_logged' = (excluded_files # <<>> /\ exclude_file(file_name, excluded_files))
        /\ vulnerabilities_to_compare_list' =
               IF enter THEN listed.patchable_vulnerabilities ELSE <<>>
        /\ jira_query' = IF Len(issue_set) > 0 THEN listed.jira_query ELSE <<>>
        /\ load_more' = enter
        /\ start_at' = 0
        /\ jira_issues' = <<>>
        /\ vulnerabilities_to_create_list' = <<>>
        /\ created_jira_issues' = <<>>
        /\ calls' = NoCall
        /\ log' = <<>>
        /\ raised' = {}
        /\ matching_at_search' = <<>>
        /\ covered_at_start' = Covered(listed.patchable_vulnerabilities)
        /\ pc' = IF enter THEN "search" ELSE "done"
        /\ UNCHANGED <<tracker, fn_vars>>

\* process_vulnerabilities, lines 484-492: one page is fetched and compared
process_vulnerabilities ==
    LET page == list_existing_jira_issues(jira_query, start_at, max_results)
        to_create == compare_jira_snyk(vulnerabilities_to_compare_list,
                         page.issues, jira_label_prefix)
    IN  /\ pc = "search"
        /\ load_more
        /\ calls' = Append(calls, [op |-> "search_issues", startAt |-> start_at,
                                   arg |-> <<>>, ok |-> TRUE])
        /\ matching_at_search' = Matching(jira_query)
        /\ jira_issues' = page.issues
        /\ load_more' = page.load_more
        /\ vulnerabilities_to_create_list' = to_create
        /\ pc' = IF Len(to_create) > 0 THEN "create" ELSE loop_exit(page.load_more)
        /\ UNCHANGED <<runs, tracker, dry_run, project, skip_logged,
                       vulnerabilities_to_compare_list, jira_query, start_at,
                       created_jira_issues, log, raised, covered_at_start, fn_vars>>

\* the search call raises: no handler encloses line 486
search_raises(e) ==
    /\ pc = "search"
    /\ load_more
    /\ calls' = Append(calls, [op |-> "search_issues", startAt |-> start_at,
                               arg |-> <<>>, ok |-> FALSE])
    /\ raised' = raised \cup {e}
    /\ pc' = "crashed"
    /\ UNCHANGED <<runs, tracker, dry_run, project, skip_logged,
                   vulnerabilities_to_compare_list, jira_query, load_more, start_at,
                   jira_issues, vulnerabilities_to_create_list, created_jira_issues,
                   log, matching_at_search, covered_at_start, fn_vars>>

\* create_jira_issues in a dry run (lines 115-128, 145), then line 500
create_jira_issues_dry_run ==
    /\ pc = "create"
    /\ is_dry_run
    /\ log' = Append(log, [msg |-> "dry run. No issues created",
                           count |-> dry_run_count(
                               jira_issues_to_create(vulnerabilities_to_create_list))])
    /\ start_at' = start_at + max_results
    /\ pc' = loop_exit(load_more)
    /\ UNCHANGED <<runs, tracker, dry_run, project, skip_logged,
                   vulnerabilities_to_compare_list, jira_query, load_more,
                   jira_issues, vulnerabilities_to_create_list, created_jira_issues,
                   calls, raised, matching_at_search, covered_at_start, fn_vars>>

\* lines 130-131: the batch create succeeds and the tracker holds the new issues
create_issues ==
    LET batch == jira_issues_to_create(vulnerabilities_to_create_list)
        new == [i \in 1..Len(batch) |->
                   [key |-> IssueKey(Len(tracker) + i), labels |-> batch[i].labels]]
    IN  /\ pc = "create"
        /\ ~is_dry_run
        /\ calls' = Append(calls, [op |-> "create_issues", startAt |-> 0,
                                   arg |-> batch, ok |-> TRUE])
        /\ tracker' = tracker \o new
        /\ created_jira_issues' = [i \in 1..Len(new) |-> [issue |-> new[i].key]]
        /\ pc' = "epic"
        /\ UNCHANGED <<runs, dry_run, project, skip_logged,
                       vulnerabilities_to_compare_list, jira_query, load_more,
                       start_at, jira_issues, vulnerabilities_to_create_list,
                       log, raised, matching_at_search, covered_at_start, fn_vars>>

\* an exception leaves the try block of lines 129-143: caught and logged by the
\* handler of line 142 (then line 500), or propagated out of the process
leave_try(e) ==
    IF except_clause_catches(e)
    THEN /\ log' = Append(log, [msg |-> "failed to create jira issues", count |-> 0])
         /\ start_at' = start_at + max_results
         /\ pc' = loop_exit(load_more)
    ELSE /\ pc' = "crashed"
         /\ UNCHANGED <<log, start_at>>

\* the batch create raises
create_issues_raises(e) ==
    /\ pc = "create"
    /\ ~is_dry_run
    /\ calls' = Append(calls, [op |-> "create_issues", startAt |-> 0,
                               arg |-> jira_issues_to_create(vulnerabilities_to_create_list),
                               ok |-> FALSE])
    /\ raised' = raised \cup {e}
    /\ leave_try(e)
    /\ UNCHANGED <<runs, tracker, dry_run, project, skip_logged,
                   vulnerabilities_to_compare_list, jira_query, load_more,
                   jira_issues, vulnerabilities_to_create_list, created_jira_issues,
                   matching_at_search, covered_at_start, fn_vars>>

\* lines 132-141: the keys are collected, add_issues_to_epic returns, every
\* created issue is logged, and the f-string of line 141 indexes the string
\* jira_epic_id with a string, which raises TypeError inside the try block
add_issues_to_epic ==
    LET created_log == [i \in 1..Len(created_jira_issues) |->
                           [msg |-> "Created JIRA issue key", count |-> i]]
    IN  /\ pc = "epic"
        /\ calls' = Append(calls, [op |-> "add_issues_to_epic", startAt |-> 0,
                                   arg |-> issue_keys_of(created_jira_issues),
                                   ok |-> TRUE])
        /\ IF except_clause_catches("TypeError")
           THEN /\ log' = (log \o created_log) \o
                          <<[msg |-> "failed to create jira issues", count |-> 0]>>
                /\ start_at' = start_at + max_results
                /\ pc' = loop_exit(load_more)
           ELSE /\ log' = log \o created_log
                /\ pc' = "crashed"
                /\ UNCHANGED start_at
        /\ UNCHANGED <<runs, tracker, dry_run, project, skip_logged,
                       vulnerabilities_to_compare_list, jira_query, load_more,
                       jira_issues, vulnerabilities_to_create_list, created_jira_issues,
                       raised, matching_at_search, covered_at_start, fn_vars>>

\* add_issues_to_epic raises
add_issues_to_epic_raises(e) ==
    /\ pc = "epic"
    /\ calls' = Append(calls, [op |-> "add_issues_to_epic", startAt |-> 0,
                               arg |-> issue_keys_of(created_jira_issues),
                               ok |-> FALSE])
    /\ raised' = raised \cup {e}
    /\ leave_try(e)
    /\ UNCHANGED <<runs, tracker, dry_run, project, skip_logged,
                   vulnerabilities_to_compare_list, jira_query, load_more,
                   jira_issues, vulnerabilities_to_create_list, created_jira_issues,
                   matching_at_search, covered_at_start, fn_vars>>

Next ==
    \/ \E p \in Projects, n \in FindingCounts, dry \in BOOLEAN : process_projects(p, n, dry)
    \/ process_vulnerabilities
    \/ \E e \in TrackerExceptions : search_raises(e)
    \/ create_jira_issues_dry_run
    \/ create_issues
    \/ \E e \in TrackerExceptions : create_issues_raises(e)
    \/ add_issues_to_epic
    \/ \E e \in TrackerExceptions : add_issues_to_epic_raises(e)

Spec == Init /\ [][Next]_vars

(***************************************************************************)
(* Function-level specifications: the inputs are drawn in the initial      *)
(* state and one action applies the function.                              *)
(***************************************************************************)
Alphabet == {"a", ":"}

\* the strings over Alphabet of length at most n
Str(n) == UNION {[1..k -> Alphabet] : k \in 0..n}

\* project.name as the scanner reports it: "<artifact>", "<artifact>(<branch>)",
\* each alone or followed by ":<file path>"
RawNames ==
    {head \o tail : head \in {<<"a">>, <<"a", "(", "a", ")">>},
                    tail \in {<<>>} \cup {<<":">> \o f : f \in Str(MaxStrLen)}}

\* (project.name, project.branch, vulnerability.id)
RawTuples ==
    [name : RawNames, branch : Str(MaxStrLen), id : {<<"a">>, <<":">>}]

\* the (artifact name, file path, branch, scanner id) of a raw tuple
TupleOf(t) ==
    <<parse_project_name(t.name, t.branch), parse_file_name(t.name), t.branch, t.id>>

\* the identity list_snyk_vulnerabilities gives the finding of a raw tuple
IdentityOf(t) ==
    list_snyk_vulnerabilities(<<[id |-> t.id, severity |-> "high"]>>, t.branch,
        parse_project_name(t.name, t.branch), parse_file_name(t.name),
        jira_label_prefix, jira_project_id).patchable_vulnerabilities[1].jira_snyk_id

InitIdentity ==
    /\ Idle
    /\ fn = "identity"
    /\ args \in RawTuples \X RawTuples
    /\ result = <<>>

apply_identity ==
    /\ fn = "identity"
    /\ fn' = "identity_done"
    /\ result' = <<IdentityOf(args[1]), IdentityOf(args[2])>>
    /\ UNCHANGED <<args, main_vars>>

NextIdentity == apply_identity

SpecIdentity == InitIdentity /\ [][NextIdentity]_vars

\* scanner ids of the query examples
QueryIds == {<<"A">>, <<"B">>, <<"C">>}

InitQuery ==
    /\ Idle
    /\ fn = "query"
    /\ args \in [name : RawNames, branch : {<<"a">>, <<"m">>},
                 ids : UNION {[1..k -> QueryIds] : k \in 1..MaxQueryFindings}]
    /\ result = <<>>

apply_query ==
    /\ fn = "query"
    /\ fn' = "query_done"
    /\ result' = list_snyk_vulnerabilities(
                     [i \in 1..Len(args.ids) |-> [id |-> args.ids[i], severity |-> "high"]],
                     args.branch, parse_project_name(args.name, args.branch),
                     parse_file_name(args.name), jira_label_prefix, jira_project_id)
    /\ UNCHANGED <<args, main_vars>>

NextQuery == apply_query

SpecQuery == InitQuery /\ [][NextQuery]_vars

\* labels a tracked issue may carry: two identities and an unrelated label
LabelPool == {jira_label_prefix \o <<"A">>, jira_label_prefix \o <<"B">>, <<"A">>}

CompareIdentities == {jira_label_prefix \o <<"A">>, jira_label_prefix \o <<"B">>}

InitCompare ==
    /\ Idle
    /\ fn = "compare"
    /\ args \in
         [vulnerabilities :
              UNION {[1..k -> [snyk_id : {<<"A">>}, jira_snyk_id : CompareIdentities,
                               severity : {"high"}]] : k \in 0..MaxCompare},
          jira_issues :
              UNION {[1..k -> [key : {IssueKey(1)},
                               labels : UNION {[1..m -> LabelPool] : m \in 0..MaxLabels}]]
                     : k \in 0..MaxCompare}]
    /\ result = <<>>

apply_compare ==
    /\ fn = "compare"
    /\ fn' = "compare_done"
    /\ result' = compare_jira_snyk(args.vulnerabilities, args.jira_issues,
                                   jira_label_prefix)
    /\ UNCHANGED <<args, main_vars>>

NextCompare == apply_compare

SpecCompare == InitCompare /\ [][NextCompare]_vars

(***************************************************************************)
(* Properties.                                                             *)
(***************************************************************************)
CallsOf(op) == {i \in 1..Len(calls) : calls[i].op = op}

\* C1: repeated runs are idempotent: when every finding of the run was already
\* filed by an earlier run (the tracker holds an issue labelled with its
\* identity), the run submits no create request, whatever the number of findings.
C1_NoFindingFiledTwice ==
    covered_at_start => CallsOf("create_issues") = {}

\* C2: compare_jira_snyk returns exactly the findings, in their order, whose
\* identity equals no label starting with the prefix of any given tracked issue.
C2_CompareIsSetDifference ==
    fn = "compare_done" =>
        LET v == args.vulnerabilities
            tracked(id) ==
                \E k \in 1..Len(args.jira_issues) :
                    \E l \in 1..Len(args.jira_issues[k].labels) :
                        /\ startswith(args.jira_issues[k].labels[l], jira_label_prefix)
                        /\ args.jira_issues[k].labels[l] = id
            keep == {i \in 1..Len(v) : ~tracked(v[i].jira_snyk_id)}
            nth(j) == CHOOSE i \in keep : Cardinality({m \in keep : m <= i}) = j
        IN  /\ Len(result) = Cardinality(keep)
            /\ \A j \in 1..Len(result) : result[j] = v[nth(j)]

\* a comparison that returned some but not all findings, with a tracked issue
\* that carries an unrelated label beside an identity
C2_Witness ==
    /\ fn = "compare_done"
    /\ Len(result) > 0
    /\ Len(result) < Len(args.vulnerabilities)
    /\ \E k \in 1..Len(args.jira_issues) :
           /\ Len(args.jira_issues[k].labels) = 2
           /\ ~startswith(args.jira_issues[k].labels[1], jira_label_prefix)
           /\ startswith(args.jira_issues[k].labels[2], jira_label_prefix)

\* C3: the pagination retrieves all matching tracked issues: once a search has
\* returned, the issues handed to the reconciliation are all the issues of the
\* tracker that match the query, and a further page was requested at every
\* offset 50, 100, ... below the number of matches before the loop was left.
C3_AllPagesRetrieved ==
    (\E i \in CallsOf("search_issues") : calls[i].ok) =>
        /\ jira_issues = matching_at_search
        /\ pc \in {"done", "create"} =>
               \A o \in 0..Len(matching_at_search) :
                   (o % max_results = 0 /\ o < Len(matching_at_search)) =>
                       \E i \in CallsOf("search_issues") : calls[i].startAt = o

\* C4: when the artifact has an exclusion entry and its file path matches one
\* of the entry's patterns, no search and no create request is issued.
C4_ExcludedArtifactSkipped ==
    skip_logged => calls = NoCall

\* C5: in a dry run no create call and no add-to-epic call is made, and the
\* count reported as "would be created" is the number of reconciled findings.
C5_DryRunNoMutation ==
    dry_run =>
        /\ CallsOf("create_issues") = {}
        /\ CallsOf("add_issues_to_epic") = {}
        /\ \A i \in 1..Len(log) :
               log[i].msg = "dry run. No issues created" =>
                   log[i].count = Len(vulnerabilities_to_create_list)

\* a dry run that ended after reporting a positive count
C5_Witness ==
    /\ dry_run
    /\ pc = "done"
    /\ Len(vulnerabilities_to_create_list) > 1
    /\ \E i \in 1..Len(log) : log[i].msg = "dry run. No issues created"

\* C6: only findings of severity critical or high reach the query, the
\* reconciliation and the create requests.
C6_OnlyCriticalAndHigh ==
    /\ \A i \in 1..Len(vulnerabilities_to_compare_list) :
           vulnerabilities_to_compare_list[i].severity \in VULNERABILITY_SEVERITIES
    /\ \A i \in 1..Len(vulnerabilities_to_create_list) :
           vulnerabilities_to_create_list[i].severity \in VULNERABILITY_SEVERITIES

\* C7: in a live run with new findings, once add_issues_to_epic has been
\* called: one batch create was made with one request per finding, each
\* labelled with that finding's identity alone; one add-to-epic call was made
\* whose key list is the keys of the created issues; and when that call has
\* returned, every created issue is reported and the function returns normally.
C7_LiveRunCommits ==
    CallsOf("add_issues_to_epic") # {} =>
        /\ Cardinality(CallsOf("create_issues")) = 1
        /\ \A i \in CallsOf("create_issues") :
               /\ Len(calls[i].arg) = Len(vulnerabilities_to_create_list)
               /\ \A j \in 1..Len(calls[i].arg) :
                      calls[i].arg[j].labels =
                          <<vulnerabilities_to_create_list[j].jira_snyk_id>>
        /\ Cardinality(CallsOf("add_issues_to_epic")) = 1
        /\ \A i \in CallsOf("add_issues_to_epic") :
               calls[i].arg = [j \in 1..Len(created_jira_issues) |->
                                  created_jira_issues[j].issue]
        /\ (\E i \in CallsOf("add_issues_to_epic") : calls[i].ok) =>
               /\ \A j \in 1..Len(created_jira_issues) :
                      \E i \in 1..Len(log) :
                          log[i].msg = "Created JIRA issue key" /\ log[i].count = j
               /\ pc # "crashed"

\* C8: a failing tracker call is recoverable: the run does not end with an
\* uncaught error, and no add-to-epic call follows a failed create.
C8_TrackerFailureRecovered ==
    raised # {} =>
        /\ pc # "crashed"
        /\ \A i \in CallsOf("create_issues") :
               ~calls[i].ok => \A j \in CallsOf("add_issues_to_epic") : j < i

NoColon(str) == \A i \in 1..Len(str) : str[i] # ":"

\* C9 as stated: any two distinct (artifact name, file path, branch, scanner
\* id) tuples get different identities, equal tuples get equal identities.
C9_IdentityInjective ==
    fn = "identity_done" =>
        (TupleOf(args[1]) = TupleOf(args[2]) <=> result[1] = result[2])

\* C9 amended: the identities of two tuples whose branches and scanner ids
\* contain no ':' are equal exactly when the tuples are equal.
C9_IdentityInjectiveWithoutColon ==
    (/\ fn = "identity_done"
     /\ \A i \in {1, 2} : NoColon(args[i].branch) /\ NoColon(args[i].id)) =>
        (TupleOf(args[1]) = TupleOf(args[2]) <=> result[1] = result[2])

\* two tuples that differ only in a file path containing ':' and got
\* different identities
C9_Witness ==
    /\ fn = "identity_done"
    /\ \A i \in {1, 2} : NoColon(args[i].branch) /\ NoColon(args[i].id)
    /\ args[1].branch = args[2].branch /\ args[1].branch # <<>>
    /\ args[1].id = args[2].id
    /\ TupleOf(args[1])[1] = TupleOf(args[2])[1]
    /\ TupleOf(args[1])[2] # TupleOf(args[2])[2]
    /\ ~NoColon(TupleOf(args[1])[2])
    /\ result[1] # result[2]

\* the separator-joined concatenation of a sequence of strings
RECURSIVE Join(_, _)
Join(parts, sep) ==
    IF Len(parts) = 0 THEN <<>>
    ELSE IF Len(parts) = 1 THEN parts[1]
    ELSE parts[1] \o sep \o Join(Tail(parts), sep)

QueryIdentities == [i \in 1..Len(result.patchable_vulnerabilities) |->
                       result.patchable_vulnerabilities[i].jira_snyk_id]

\* C10 as stated: the query is project=<projectId> AND (label="id1" OR
\* label="id2" ...), no whitespace inside the parentheses.
C10_QueryExact ==
    fn = "query_done" =>
        result.jira_query =
            <<"p", "r", "o", "j", "e", "c", "t", "=">> \o jira_project_id
            \o <<" ", "A", "N", "D", " ", "(">>
            \o Join([i \in 1..Len(QueryIdentities) |->
                        <<"l", "a", "b", "e", "l", "=", "\"">> \o QueryIdentities[i]
                        \o <<"\"">>],
                    <<" ", "O", "R", " ">>)
            \o <<")">>

\* C10 amended: the query is project=<projectId> AND ( labels="id1" OR
\* labels="id2" ... ), one clause per identity in finding order, joined by OR,
\* no trailing OR, one space after "(" and one before ")".
C10_QueryExactLabels ==
    fn = "query_done" =>
        result.jira_query =
            <<"p", "r", "o", "j", "e", "c", "t", "=">> \o jira_project_id
            \o <<" ", "A", "N", "D", " ", "(", " ">>
            \o Join([i \in 1..Len(QueryIdentities) |->
                        <<"l", "a", "b", "e", "l", "s", "=", "\"">>
                        \o QueryIdentities[i] \o <<"\"">>],
                    <<" ", "O", "R", " ">>)
            \o <<" ", ")">>

\* a query built for two findings with different scanner ids
C10_Witness ==
    /\ fn = "query_done"
    /\ Len(result.patchable_vulnerabilities) = 2
    /\ args.ids = << <<"A">>, <<"B">> >>
    /\ parse_file_name(args.name) # <<>>

\* C11: an artifact with zero findings causes no tracker call at all (no
\* search, no create), and no search is ever made with a query whose label
\* clause is empty, such as the query built from zero findings.
C11_NoQueryWithoutFindings ==
    /\ (runs > 0 /\ Len(project.issues) = 0) => calls = NoCall
    /\ CallsOf("search_issues") # {} =>
           /\ QueryLabels(jira_query) # {}
           /\ jira_query # strip_last_or(query_head(jira_project_id))

\* a run over an artifact without findings that ended, against a tracker
\* that holds issues of an earlier run
C11_Witness ==
    /\ runs > 1
    /\ pc = "done"
    /\ Len(project.issues) = 0
    /\ Len(tracker) > 0
    /\ calls = NoCall

====
